---- MODULE Spec2Model ----
(***************************************************************************)
(* Creator engine (ChaneyCreators) and ideal-model utility cache           *)
(* (ideal_content_score_fns) of algo_confounding/creator_sim.py.           *)
(*                                                                         *)
(* Real numbers are fixed-point integers in units of 1/SCALE; a division   *)
(* truncates toward zero, so a normalised row sums to SCALE up to Tol      *)
(* units, which stands for "within floating tolerance".                    *)
(***************************************************************************)
EXTENDS Integers, Sequences, FiniteSets, TLC

\* ------------------------------------------------------------------ bounds
\* calls of generate_items and update_profiles in one run
MaxCalls == 3
\* catalog extensions and model_score_fn calls in one run
MaxScoreCalls == 5
CreatorIds == {0, 1}
Attrs == {1, 2}
Users == {1, 2}
NumAttrs == Cardinality(Attrs)
NumUsers == Cardinality(Users)

\* ------------------------------------------------------------- fixed point
SCALE == 1000 * 1000
ClipLo == SCALE \div 10000
ClipHi == SCALE
Tol == NumAttrs
NoCreator == 0 - 1
\* IEEE results of a division by zero: 0/0 is NaN, x/0 is an infinity
NaN == 0 - 2
Inf == SCALE * 1000

VARIABLES
    actual_creator_profiles,  \* [Creators -> [Attrs -> fixed-point]]
    ordered_creator_ids,      \* sequence of creator ids, one per created item
    items_per_creator,
    learning_rate,            \* <<numerator, denominator>>
    creation_probability,     \* in percent
    items,                    \* the catalog: sequence of item attribute vectors
    last_batch,               \* columns returned by the last generate_items
    last_producers,           \* creator whose profile drew each column, or NoCreator
    last_mask,                \* creator_mask of the last generate_items
    last_update,              \* record of the last update_profiles that returned
    measured,                 \* last observation of CreatorItemHomogenization
    status,                   \* "running", or the exception that ended the run
    gen_calls,
    upd_calls,
    true_user_item_utils,     \* the utility cache of ideal_content_score_fns
    num_items_per_iter,       \* the new-batch width the score function was built with
    num_items,                \* number of catalog items the ideal recommender holds
    new_items,                \* width of the newest batch of the catalog
    scored,                   \* catalog items whose utilities have been generated
    last_call,                \* record of the last model_score_fn call
    score_calls,
    create_calls,
    pop,                      \* two runs of PopularityRecommender, same configuration
    num_recommended,          \* k, the number of items recommended per user
    pop_calls

cvars == <<actual_creator_profiles, ordered_creator_ids, items_per_creator,
           learning_rate, creation_probability, items, last_batch,
           last_producers, last_mask, last_update, measured, gen_calls,
           upd_calls>>

svars == <<true_user_item_utils, num_items_per_iter, num_items, new_items,
           scored, last_call, score_calls, create_calls>>

pvars == <<pop, num_recommended, pop_calls>>

vars == <<cvars, svars, pvars, status>>

\* num_creators = self.actual_creator_profiles.shape[0]
Creators == DOMAIN actual_creator_profiles
NumCreators == Cardinality(Creators)

\* ------------------------------------------------------------ vector helpers
RECURSIVE SumOver(_, _)
SumOver(S, f) ==
    IF S = {} THEN 0
    ELSE LET x == CHOOSE y \in S : TRUE IN f[x] + SumOver(S \ {x}, f)

\* a sum with a NaN term is NaN
RowSum(row) == IF \E a \in Attrs : row[a] = NaN THEN NaN ELSE SumOver(Attrs, row)

ZeroVec == [a \in Attrs |-> 0]
Unit(b) == [a \in Attrs |-> IF a = b THEN SCALE ELSE 0]
Half(b, c) == [a \in Attrs |-> IF a = b \/ a = c THEN SCALE \div 2 ELSE 0]
Base(v) == [a \in Attrs |-> IF a = NumAttrs THEN SCALE - v * (NumAttrs - 1) ELSE v]

\* points of the simplex a Dirichlet draw can return (sparse ones included)
ItemVecs == {Unit(NumAttrs), Half(1, 2)}

\* rows sample_users_and_creators can produce: strictly positive, sum to 1
Balanced == Base(SCALE \div NumAttrs)
Skewed == Base(2000)

\* initial profile matrices: all creators balanced, or creator 0 skewed
InitProfiles ==
    {[c \in CreatorIds |-> Balanced],
     [c \in CreatorIds |-> IF c = 0 THEN Skewed ELSE Balanced]}

LearningRates == {<<1, 20>>, <<20, 1>>}
ItemsPerCreator == {1, 2}
CreationProbabilities == {0, 50}

\* a variant in which every trial can fall either way whatever p is
BinomialEitherWay(p) == [Creators -> {0, 1}]

\* rng.binomial(1, p, n): one Bernoulli trial per creator
Binomial(p) ==
    {m \in [Creators -> {0, 1}] :
        /\ (p = 0 => \A c \in Creators : m[c] = 0)
        /\ (p = 100 => \A c \in Creators : m[c] = 1)}

\* rng.dirichlet(alpha): a simplex point; zero concentration gives zero mass
Dirichlet(alpha) == {v \in ItemVecs : \A a \in Attrs : alpha[a] = 0 => v[a] = 0}

\* np.nonzero(creator_mask)[0]: the selected creators in ascending order
RECURSIVE NonZero(_, _)
NonZero(mask, c) ==
    IF c >= NumCreators THEN <<>>
    ELSE (IF mask[c] # 0 THEN <<c>> ELSE <<>>) \o NonZero(mask, c + 1)

\* np.repeat(a, n): every element n times, consecutively
Repeat(a, n) == [j \in 1 .. (Len(a) * n) |-> a[((j - 1) \div n) + 1]]

\* a variant that assigns the new ids instead of appending them
AssignIds(ids, chosen, n) == Repeat(chosen, n)

\* np.append(self.ordered_creator_ids, np.repeat(chosen_profiles, n))
AppendIds(ids, chosen, n) == ids \o Repeat(chosen, n)

Min(a, b) == IF a < b THEN a ELSE b
Max(a, b) == IF a > b THEN a ELSE b

\* items[idx:next_idx, :] = draws, rows 0-based; "ValueError" when the slice
\* and the drawn block have different numbers of rows and draws is not one row
SliceAssign(batch, idx, next_idx, draws, c) ==
    LET n == Len(batch.rows)
        lo == Min(idx, n)
        hi == Max(lo, Min(next_idx, n))
        len == hi - lo
    IN  IF batch.err THEN batch
        ELSE IF len = Len(draws) \/ Len(draws) = 1 THEN
            [err |-> FALSE,
             rows |-> [j \in 1 .. n |->
                        IF j - 1 >= lo /\ j - 1 < hi
                        THEN (IF Len(draws) = 1 THEN draws[1] ELSE draws[j - lo])
                        ELSE batch.rows[j]],
             by |-> [j \in 1 .. n |->
                        IF j - 1 >= lo /\ j - 1 < hi THEN c ELSE batch.by[j]]]
        ELSE [err |-> TRUE, rows |-> batch.rows, by |-> batch.by]

\* the loop of generate_items over enumerate(chosen_profiles)
RECURSIVE FillItems(_, _, _, _, _)
FillItems(batch, chosen, draws, n, k) ==
    IF k > Len(chosen) THEN batch
    ELSE FillItems(SliceAssign(batch, k - 1, k * n, draws[k], chosen[k]),
                   chosen, draws, n, k + 1)

\* the driver appends the returned columns to the catalog
AppendNewItems(catalog, batch) == catalog \o batch

\* one generate_items call; vecs are the points the sampler may return in
\* this run and limit bounds the calls of the run
GenerateItemsFrom(vecs, limit) ==
    /\ status = "running"
    /\ gen_calls + upd_calls < limit
    /\ \E mask \in Binomial(creation_probability) :
        LET chosen == NonZero(mask, 0)
            n == items_per_creator
            zeros == [err |-> FALSE,
                      rows |-> [j \in 1 .. (n * NumCreators) |-> ZeroVec],
                      by |-> [j \in 1 .. (n * NumCreators) |-> NoCreator]]
        IN  \E draws \in [1 .. Len(chosen) -> [1 .. n -> vecs]] :
              /\ \A k \in 1 .. Len(chosen) : \A j \in 1 .. n :
                    draws[k][j] \in Dirichlet(actual_creator_profiles[chosen[k]])
              /\ LET batch == FillItems(zeros, chosen, draws, n, 1)
                 IN  /\ ordered_creator_ids' = AppendIds(ordered_creator_ids, chosen, n)
                     /\ last_mask' = mask
                     /\ IF batch.err
                        THEN /\ status' = "ValueError"
                             /\ last_batch' = <<>>
                             /\ last_producers' = <<>>
                             /\ items' = items
                        ELSE /\ status' = status
                             /\ last_batch' = batch.rows
                             /\ last_producers' = batch.by
                             /\ items' = AppendNewItems(items, batch.rows)
    /\ gen_calls' = gen_calls + 1
    /\ UNCHANGED <<actual_creator_profiles, items_per_creator, learning_rate,
                   creation_probability, last_update, measured, upd_calls,
                   svars, pvars>>

GenerateItems == GenerateItemsFrom(ItemVecs, MaxCalls)

\* ----------------------------------------------------------- update_profiles
\* floor(n * SCALE / d), digit by digit so that no product overflows
RECURSIVE DigitDiv(_, _, _)
DigitDiv(r, d, k) ==
    IF k = 0 THEN 0
    ELSE LET t == r * 10
             q == DigitDiv(t % d, d, k - 1)
             p == IF k = 6 THEN 100000 ELSE IF k = 5 THEN 10000 ELSE IF k = 4 THEN 1000
                  ELSE IF k = 3 THEN 100 ELSE IF k = 2 THEN 10 ELSE 1
         IN  (t \div d) * p + q

\* n / d in fixed point; a zero divisor raises nothing (warnings are ignored)
FixDiv(n, d) ==
    IF n = NaN \/ d = NaN \/ (n = 0 /\ d = 0) THEN NaN
    ELSE IF d = 0 THEN (IF n > 0 THEN Inf ELSE 0 - Inf)
    ELSE (n \div d) * SCALE + DigitDiv(n % d, d, 6)

\* x + y
FAdd(x, y) == IF x = NaN \/ y = NaN THEN NaN ELSE x + y

\* learning_rate * x
LrTimes(x) == (x * learning_rate[1]) \div learning_rate[2]

\* interactions.reshape(-1): row-major flattening of the users x shown matrix
RECURSIVE Flatten(_, _)
Flatten(m, u) == IF u > NumUsers THEN <<>> ELSE m[u] \o Flatten(m, u + 1)

\* a variant with buffered fancy-index addition (profiles[idx] += rows): only
\* the last occurrence of a repeated index takes effect
AddAtBuffered(profiles, creators_to_update, weighted_items, k) ==
    [c \in Creators |->
        LET occ == {j \in 1 .. Len(creators_to_update) : creators_to_update[j] = c}
        IN  IF occ = {} THEN profiles[c]
            ELSE LET j == CHOOSE i \in occ : \A h \in occ : h <= i
                 IN  [a \in Attrs |-> FAdd(profiles[c][a], weighted_items[j][a])]]

\* np.add.at(profiles, (creators_to_update, slice(None)), weighted_items):
\* unbuffered, every occurrence of an index adds its row
RECURSIVE AddAt(_, _, _, _)
AddAt(profiles, creators_to_update, weighted_items, k) ==
    IF k > Len(creators_to_update) THEN profiles
    ELSE LET c == creators_to_update[k]
             p == [profiles EXCEPT ![c] = [a \in Attrs |-> FAdd(@[a], weighted_items[k][a])]]
         IN  AddAt(p, creators_to_update, weighted_items, k + 1)

\* profiles /= profiles.sum(axis=1)[:, np.newaxis]
Normalize(profiles) ==
    [c \in Creators |-> [a \in Attrs |-> FixDiv(profiles[c][a], RowSum(profiles[c]))]]

\* a variant that clips from above only
ClipUpperOnly(profiles) ==
    [c \in Creators |-> [a \in Attrs |->
        IF profiles[c][a] = NaN THEN NaN ELSE Min(profiles[c][a], ClipHi)]]

\* np.clip(profiles, 1e-4, 1); a NaN stays a NaN
Clip(profiles) ==
    [c \in Creators |-> [a \in Attrs |->
        IF profiles[c][a] = NaN THEN NaN
        ELSE Min(Max(profiles[c][a], ClipLo), ClipHi)]]

\* widths of the interaction matrix: items chosen per user in one step
ShownWidths == {0, 1}

Interactions ==
    UNION {[Users -> [1 .. k -> 0 .. (Len(items) - 1)]] : k \in ShownWidths}

\* a variant of the precondition that only rejects a sequence that is too long
LengthAtMost(ids, catalog) == Len(ids) <= Len(catalog)

\* assert len(self.ordered_creator_ids) == items.shape[1]
LengthsAgree(ids, catalog) == Len(ids) = Len(catalog)

\* one update_profiles call; choices are the interaction matrices the users
\* may produce in this run and limit bounds the calls of the run
UpdateProfilesOn(choices, limit) ==
    /\ status = "running"
    /\ gen_calls + upd_calls < limit
    /\ upd_calls' = upd_calls + 1
    /\ IF ~LengthsAgree(ordered_creator_ids, items)
       THEN /\ status' = "AssertionError"
            /\ UNCHANGED <<actual_creator_profiles, last_update>>
       ELSE \E interactions \in choices :
            LET item_ids == Flatten(interactions, 1)
            IN
            \* self.ordered_creator_ids[item_ids] with an index past the end
            IF \E k \in 1 .. Len(item_ids) : item_ids[k] >= Len(ordered_creator_ids)
            THEN /\ status' = "IndexError"
                 /\ UNCHANGED <<actual_creator_profiles, last_update>>
            ELSE
            LET creators_to_update ==
                    [k \in 1 .. Len(item_ids) |-> ordered_creator_ids[item_ids[k] + 1]]
                weighted_items ==
                    [k \in 1 .. Len(item_ids) |->
                        [a \in Attrs |-> LrTimes(items[item_ids[k] + 1][a])]]
                added == AddAt(actual_creator_profiles, creators_to_update,
                               weighted_items, 1)
            IN  /\ actual_creator_profiles' = Clip(Normalize(added))
                /\ last_update' = [called |-> TRUE,
                                   prev |-> actual_creator_profiles,
                                   item_ids |-> item_ids,
                                   added |-> added]
                /\ status' = status
    /\ UNCHANGED <<ordered_creator_ids, items_per_creator, learning_rate,
                   creation_probability, items, last_batch, last_producers,
                   last_mask, measured, gen_calls, svars, pvars>>

UpdateProfiles == UpdateProfilesOn(Interactions, MaxCalls)

\* ------------------------------------------ CreatorItemHomogenization.measure
\* a variant of the assertion that accepts one batch only
CountIsOneBatch(n, num_creators) == n = num_creators

\* assert recommender.items.num_items % num_creators == 0
CountIsMultiple(n, num_creators) == n % num_creators = 0

\* one measurement of the catalog; the observation is None, or the mean
\* pairwise distance of the num_creators newest items
Measure ==
    /\ status = "running"
    /\ LET n == Len(items)
       IN  IF n = 0
           THEN /\ measured' = [out |-> "None", n |-> n]
                /\ status' = status
           ELSE IF ~CountIsMultiple(n, NumCreators)
           THEN /\ measured' = [out |-> "failed", n |-> n]
                /\ status' = "AssertionError"
           ELSE /\ measured' = [out |-> "avg_dist", n |-> n]
                /\ status' = status
    /\ UNCHANGED <<actual_creator_profiles, ordered_creator_ids,
                   items_per_creator, learning_rate, creation_probability,
                   items, last_batch, last_producers, last_mask, last_update,
                   gen_calls, upd_calls, svars, pvars>>

\* ------------------------------------------------- ideal_content_score_fns
\* a matrix is its shape <<rows, columns>> and its columns, each a sequence of
\* one entry per row; NoUtils is the initial None of true_user_item_utils
NoUtils == [none |-> TRUE, shape |-> <<0, 0>>, cols |-> <<>>]
Matrix(r, cols) == [none |-> FALSE, shape |-> <<r, Len(cols)>>, cols |-> cols]

NegInf == -1
UtilVals == {1, 2}
UserCounts == {1, 2}
BatchWidths == {1, 2}
ItemsPerIter == {1, 2}

\* generator.beta(alphas, betas, size=(num_users, num_items))
Beta(num_users, n) == [1 .. n -> [1 .. num_users -> UtilVals]]

\* np.ones(shape) * float('-inf')
NegInfMatrix(shape) ==
    Matrix(shape[1], [j \in 1 .. shape[2] |-> [i \in 1 .. shape[1] |-> NegInf]])

\* a variant of the assertion that compares the item count only
AssertColumnsOnly(num_users, n, utils) == n = utils.shape[2]

\* assert (num_users, num_items) == true_user_item_utils.shape
AssertShape(num_users, n, utils) == <<num_users, n>> = utils.shape

\* model_score_fn(user_attrs, item_attrs) with user_attrs of num_users rows and
\* item_attrs of n columns; true_utility is the matrix the generator would draw.
\* Gives the exception raised ("none" when it returns), the cache afterwards,
\* the returned matrix and whether utilities were generated.
ModelScoreFn(utils, num_users, n, true_utility) ==
    IF utils.none /\ num_users * n # 0 THEN
        \* np.array([]).reshape((num_users, num_items)) of a non-empty shape
        [exc |-> "ValueError", utils |-> utils, ret |-> NoUtils, generated |-> FALSE]
    ELSE
        LET cached == IF utils.none THEN Matrix(num_users, <<>>) ELSE utils
        IN  IF n = num_items_per_iter THEN
                IF cached.shape[1] # num_users THEN
                    \* np.hstack of blocks with different row counts
                    [exc |-> "ValueError", utils |-> cached, ret |-> NoUtils,
                     generated |-> FALSE]
                ELSE
                    LET stacked == Matrix(num_users, cached.cols \o true_utility)
                    IN  [exc |-> "none", utils |-> stacked,
                         ret |-> NegInfMatrix(stacked.shape), generated |-> TRUE]
            ELSE IF ~AssertShape(num_users, n, cached) THEN
                [exc |-> "AssertionError", utils |-> cached, ret |-> NoUtils,
                 generated |-> FALSE]
            ELSE
                [exc |-> "none", utils |-> cached, ret |-> cached, generated |-> FALSE]

\* the driver asks the creators for a batch and appends it to the catalog
CreateItems ==
    /\ status = "running"
    /\ create_calls + score_calls < MaxScoreCalls
    /\ \E w \in BatchWidths :
        /\ new_items' = w
        /\ num_items' = num_items + w
    /\ create_calls' = create_calls + 1
    /\ UNCHANGED <<true_user_item_utils, num_items_per_iter, scored, last_call,
                   score_calls, status, cvars, pvars>>

Score(kind, covered) ==
    /\ status = "running"
    /\ create_calls + score_calls < MaxScoreCalls
    /\ \E num_users \in UserCounts :
       \E true_utility \in Beta(num_users, Cardinality(covered)) :
        LET r == ModelScoreFn(true_user_item_utils, num_users,
                              Cardinality(covered), true_utility)
        IN  /\ true_user_item_utils' = r.utils
            /\ status' = IF r.exc = "none" THEN status ELSE r.exc
            /\ scored' = IF r.generated THEN scored \cup covered ELSE scored
            /\ last_call' = [kind |-> kind, num_users |-> num_users,
                             n |-> Cardinality(covered), pre |-> true_user_item_utils,
                             exc |-> r.exc, ret |-> r.ret,
                             rescored |-> r.generated /\ covered \subseteq scored
                                          /\ covered # {}]
    /\ score_calls' = score_calls + 1
    /\ UNCHANGED <<num_items_per_iter, num_items, new_items, create_calls, cvars,
                   pvars>>

\* the recommender scores the batch it was just given
ScoreNewItems == Score("new", (num_items - new_items + 1) .. num_items)

\* the recommender scores the whole catalog (train)
ScoreAllItems == Score("all", 1 .. num_items)

\* ------------------------------------------------------ PopularityRecommender
MaxPopCalls == 3
PopItems == {0, 1}
PopNumItems == Cardinality(PopItems)
PopUsers == {1}
PopKs == {1, 2}
Runs == {1, 2}

\* beta_t = np.zeros((1, num_items)); the scores s_t start from the same counts
PopFresh ==
    [beta_t |-> [i \in PopItems |-> 0],
     s_t |-> [i \in PopItems |-> 0],
     rec |-> <<>>]

PopStart ==
    /\ pop = [r \in Runs |-> PopFresh]
    /\ pop_calls = 0

\* self.s_t.argsort()[0]: the items in ascending order of score; the order of
\* tied items is left to the sort
ArgSort(row) ==
    {a \in [1 .. PopNumItems -> PopItems] :
        /\ \A i, j \in 1 .. PopNumItems : i # j => a[i] # a[j]
        /\ \A i, j \in 1 .. PopNumItems : i < j => row[a[i]] <= row[a[j]]}

\* p = np.arange(1, self.num_items + 1)
RankWeights == [i \in 1 .. PopNumItems |-> i]

\* np.random.choice(a, p=p, size=(num_users, k)): every entry is drawn on its
\* own from the entries of a that have positive weight (replace defaults to
\* True), by the generator of the numpy module
Choice(a, p, k) ==
    [PopUsers -> [1 .. k -> {a[i] : i \in {j \in 1 .. Len(a) : p[j] > 0}}]]

\* recommend(k)
Recommend(s_t, k) == UNION {Choice(a, RankWeights, k) : a \in ArgSort(s_t)}

\* the interactions the base class returns: every user chooses one of the
\* items recommended to them; one count per item
UserChoices(rec) ==
    {c \in [PopUsers -> PopItems] :
        \A u \in PopUsers : \E i \in 1 .. Len(rec[u]) : rec[u][i] = c[u]}

InteractionCounts(c) == [i \in PopItems |-> Cardinality({u \in PopUsers : c[u] = i})]

\* _store_interaction: self.beta_t = np.add(self.beta_t, interactions)
StoreInteraction(beta_t, interactions) ==
    [i \in PopItems |-> beta_t[i] + interactions[i]]

\* interact() with randomize_recommended off, in both runs
PopInteract ==
    /\ status = "running"
    /\ pop_calls < MaxPopCalls
    /\ pop_calls' = pop_calls + 1
    /\ \E recs \in [Runs -> UNION {Recommend(pop[r].s_t, num_recommended) : r \in Runs}] :
       \E chosen \in [Runs -> [PopUsers -> PopItems]] :
          /\ \A r \in Runs : recs[r] \in Recommend(pop[r].s_t, num_recommended)
          /\ \A r \in Runs : chosen[r] \in UserChoices(recs[r])
          /\ pop' = [r \in Runs |->
                        [beta_t |-> StoreInteraction(pop[r].beta_t,
                                                     InteractionCounts(chosen[r])),
                         s_t |-> pop[r].s_t,
                         rec |-> recs[r]]]
    /\ UNCHANGED <<num_recommended, status, cvars, svars>>

\* train(): the scores become theta_t times beta_t, theta_t all ones
PopTrain ==
    /\ status = "running"
    /\ pop_calls < MaxPopCalls
    /\ pop_calls' = pop_calls + 1
    /\ pop' = [r \in Runs |-> [pop[r] EXCEPT !.s_t = pop[r].beta_t]]
    /\ UNCHANGED <<num_recommended, status, cvars, svars>>

\* ---------------------------------------------------------------- behaviour
CreatorStart ==
    /\ ordered_creator_ids = <<>>
    /\ items = <<>>
    /\ last_batch = <<>>
    /\ last_producers = <<>>
    /\ last_mask = [c \in Creators |-> 0]
    /\ last_update = [called |-> FALSE, prev |-> actual_creator_profiles,
                      item_ids |-> <<>>, added |-> actual_creator_profiles]
    /\ measured = [out |-> "unmeasured", n |-> 0]
    /\ gen_calls = 0
    /\ upd_calls = 0

ScoreStart ==
    /\ true_user_item_utils = NoUtils
    /\ num_items = 0
    /\ new_items = 0
    /\ scored = {}
    /\ last_call = [kind |-> "none", num_users |-> 0, n |-> 0, pre |-> NoUtils,
                    exc |-> "none", ret |-> NoUtils, rescored |-> FALSE]
    /\ score_calls = 0
    /\ create_calls = 0

\* the creator engine on its own
Init ==
    /\ actual_creator_profiles \in InitProfiles
    /\ items_per_creator \in ItemsPerCreator
    /\ learning_rate \in LearningRates
    /\ creation_probability \in CreationProbabilities
    /\ CreatorStart
    /\ num_items_per_iter = NumCreators
    /\ ScoreStart
    /\ num_recommended = 1
    /\ PopStart
    /\ status = "running"

Next == GenerateItems \/ UpdateProfiles

Spec == Init /\ [][Next]_vars

\* the engine with the homogenization metric measured between its calls
MeasureNext == GenerateItems \/ UpdateProfiles \/ Measure

MeasureSpec == Init /\ [][MeasureNext]_vars

\* the engine constructed on a profile matrix that already has a zero row
\* (actual_creator_profiles is a constructor argument); no creator is ever
\* selected, so the Dirichlet sampler is never handed such a row
ZeroRowProfiles ==
    {[c \in CreatorIds |-> IF c = z THEN ZeroVec ELSE r] :
        z \in CreatorIds, r \in {Balanced, Skewed, ZeroVec}}

ZeroRowInit ==
    /\ actual_creator_profiles \in ZeroRowProfiles
    /\ items_per_creator \in ItemsPerCreator
    /\ learning_rate \in LearningRates
    /\ creation_probability = 0
    /\ CreatorStart
    /\ num_items_per_iter = NumCreators
    /\ ScoreStart
    /\ num_recommended = 1
    /\ PopStart
    /\ status = "running"

ZeroRowSpec == ZeroRowInit /\ [][Next]_vars

\* the end-to-end scenario: ten creators, one item per creator and step,
\* learning rate 0.05, creation probability 1, startup steps then steady
\* steps; a step is one generate_items call followed by one update_profiles
\* call.  The sampler returns the sparse point for every item, and the users
\* either choose nothing or all choose the newest item.
ScenarioCreators == 0 .. 9
ScenarioSteps == 5 + 3
ScenarioVecs == {Unit(NumAttrs)}
ScenarioInteractions ==
    UNION {[Users -> [1 .. k -> {Len(items) - 1}]] : k \in ShownWidths}

ScenarioInit ==
    /\ actual_creator_profiles \in
            {[c \in ScenarioCreators |-> Balanced],
             [c \in ScenarioCreators |-> IF c = 9 THEN Skewed ELSE Balanced]}
    /\ items_per_creator = 1
    /\ learning_rate = <<1, 20>>
    /\ creation_probability = 100
    /\ CreatorStart
    /\ num_items_per_iter = NumCreators
    /\ ScoreStart
    /\ num_recommended = 1
    /\ PopStart
    /\ status = "running"

ScenarioGenerate ==
    /\ gen_calls = upd_calls
    /\ GenerateItemsFrom(ScenarioVecs, 2 * ScenarioSteps)

ScenarioUpdate ==
    /\ gen_calls = upd_calls + 1
    /\ UpdateProfilesOn(ScenarioInteractions, 2 * ScenarioSteps)

ScenarioNext == ScenarioGenerate \/ ScenarioUpdate

ScenarioSpec == ScenarioInit /\ [][ScenarioNext]_vars

\* two runs of the popularity recommender under one configuration
PopInit ==
    /\ actual_creator_profiles = [c \in CreatorIds |-> Balanced]
    /\ items_per_creator = 1
    /\ learning_rate = <<1, 20>>
    /\ creation_probability = 50
    /\ CreatorStart
    /\ num_items_per_iter = NumCreators
    /\ ScoreStart
    /\ num_recommended \in PopKs
    /\ PopStart
    /\ status = "running"

PopNext == PopInteract \/ PopTrain

PopSpec == PopInit /\ [][PopNext]_vars

\* the ideal recommender's utility cache on its own
ScoreInit ==
    /\ actual_creator_profiles = [c \in CreatorIds |-> Balanced]
    /\ items_per_creator = 1
    /\ learning_rate = <<1, 20>>
    /\ creation_probability = 50
    /\ CreatorStart
    /\ num_items_per_iter \in ItemsPerIter
    /\ ScoreStart
    /\ num_recommended = 1
    /\ PopStart
    /\ status = "running"

ScoreNext == CreateItems \/ ScoreNewItems \/ ScoreAllItems

ScoreSpec == ScoreInit /\ [][ScoreNext]_vars

\* ------------------------------------------------------ calc_startup_rec_size
\* the returned size is [all |-> TRUE] for "all", else a count of items

\* a variant that counts one startup step only
CalcOneStepRecSize(args) ==
    IF args.repeated_training THEN [all |-> TRUE, size |-> 0]
    ELSE [all |-> FALSE,
          size |-> (args.items_per_creator * args.num_creators)
                   + args.new_items_per_iter]

CalcStartupRecSize(args) ==
    IF args.repeated_training THEN [all |-> TRUE, size |-> 0]
    ELSE LET total_items_in_startup ==
                 (args.items_per_creator * args.num_creators) * args.startup_iters
         IN  [all |-> FALSE, size |-> total_items_in_startup + args.new_items_per_iter]

\* the arguments of a run of this engine with the given horizon and batch width
Args(repeated, startup_iters, new_items_per_iter) ==
    [repeated_training |-> repeated,
     items_per_creator |-> items_per_creator,
     num_creators |-> NumCreators,
     startup_iters |-> startup_iters,
     new_items_per_iter |-> new_items_per_iter]

\* ------------------------------------------------------------------- claims
Abs(x) == IF x < 0 THEN -x ELSE x

\* the ids appended by the last generate_items call
LastChosen == NonZero(last_mask, 0)
LastAppended ==
    LET k == Len(LastChosen) * items_per_creator
        n == Len(ordered_creator_ids)
    IN  SubSeq(ordered_creator_ids, n - k + 1, n)

\* C1: after any sequence of generate_items calls, len(ordered_creator_ids)
\* equals the number of item columns those calls returned (the catalog size).
C1_IdsMatchCatalog == Len(ordered_creator_ids) = Len(items)

\* C2: after every update_profiles call that returns, every creator profile
\* row sums to 1 within tolerance.
C2_RowsSumToOne ==
    last_update.called =>
        \A c \in Creators : Abs(RowSum(actual_creator_profiles[c]) - SCALE) <= Tol

\* C3: after every update_profiles call that returns, every coordinate of
\* every creator profile lies in [1e-4, 1], so none is exactly 0.
C3_CoordinatesClamped ==
    last_update.called =>
        \A c \in Creators : \A a \in Attrs :
            /\ actual_creator_profiles[c][a] >= ClipLo
            /\ actual_creator_profiles[c][a] <= ClipHi
            /\ actual_creator_profiles[c][a] # 0

\* C3 witness: an update returned in which the lower clamp acted
C3_Witness ==
    /\ last_update.called
    /\ \E c \in Creators : \E a \in Attrs :
        /\ FixDiv(last_update.added[c][a], RowSum(last_update.added[c])) < ClipLo
        /\ actual_creator_profiles[c][a] = ClipLo

\* C4: when no creator is selected, generate_items returns a batch of zero
\* items without raising; with creation_probability = 0 the catalog never
\* grows and ordered_creator_ids stays empty.
C4_EmptyBatchWhenNoneSelected ==
    /\ (gen_calls > 0 /\ LastChosen = <<>>) =>
            (status # "ValueError" /\ Len(last_batch) = 0)
    /\ creation_probability = 0 => (Len(items) = 0 /\ ordered_creator_ids = <<>>)

\* C5: for every items_per_creator >= 1 and every mask, generate_items
\* completes, each selected creator gets exactly items_per_creator columns
\* drawn from its own profile, and column j of the batch was produced by the
\* creator appended at position j of ordered_creator_ids in that call.
C5_BatchMatchesAppendedIds ==
    gen_calls > 0 =>
        /\ status # "ValueError"
        /\ Len(last_batch) >= Len(LastAppended)
        /\ \A j \in 1 .. Len(LastAppended) :
            /\ last_producers[j] = LastAppended[j]
            /\ last_batch[j] \in ItemVecs
        /\ \A k \in 1 .. Len(LastChosen) :
            Cardinality({j \in 1 .. Len(last_batch) :
                            last_producers[j] = LastChosen[k]}) = items_per_creator

\* the interaction occurrences of the last update that hit an item of creator c
Occurrences(c) ==
    {k \in 1 .. Len(last_update.item_ids) :
        ordered_creator_ids[last_update.item_ids[k] + 1] = c}

\* C6: before renormalisation every profile row is its previous value plus
\* learning_rate times the attribute vectors of the interacted items of that
\* creator, one contribution per interaction occurrence.
C6_AccumulatesPerOccurrence ==
    last_update.called =>
        \A c \in Creators : \A a \in Attrs :
            last_update.added[c][a] =
                last_update.prev[c][a] +
                SumOver(Occurrences(c),
                        [k \in Occurrences(c) |->
                            LrTimes(items[last_update.item_ids[k] + 1][a])])

\* C6 witness: one creator received two contributions in one update, from the
\* same item chosen twice or from two of its items
C6_Witness ==
    /\ last_update.called
    /\ \E c \in Creators : Cardinality(Occurrences(c)) >= 2
    /\ \E k \in 1 .. Len(last_update.item_ids) :
            items[last_update.item_ids[k] + 1] # ZeroVec

\* C7: ordered_creator_ids is append-only: no generate_items or
\* update_profiles call changes an assigned position or shortens it.
C7_AppendOnly ==
    [][/\ Len(ordered_creator_ids') >= Len(ordered_creator_ids)
       /\ SubSeq(ordered_creator_ids', 1, Len(ordered_creator_ids)) = ordered_creator_ids]_vars

\* C7 witness: positions assigned by an earlier call are still there after a
\* later generate_items and an update_profiles
C7_Witness ==
    /\ gen_calls >= 2
    /\ last_update.called
    /\ Len(LastAppended) > 0
    /\ Len(ordered_creator_ids) > Len(LastAppended)

AllNegInf(m) ==
    /\ ~m.none
    /\ \A j \in 1 .. Len(m.cols) : \A i \in 1 .. Len(m.cols[j]) : m.cols[j][i] = NegInf

\* C8: scoring the same new batch a second time returns negative infinity for
\* every entry, and a call with the full catalog width, made when the cache
\* holds one column per catalog item, returns the cached utilities unchanged.
C8_RescoreNegInfFullReturnsCache ==
    /\ (last_call.kind = "new" /\ last_call.rescored) => AllNegInf(last_call.ret)
    /\ (/\ last_call.kind = "all"
        /\ ~last_call.pre.none
        /\ last_call.pre.shape = <<last_call.num_users, num_items>>)
       => (/\ last_call.exc = "none"
           /\ last_call.ret = last_call.pre
           /\ true_user_item_utils = last_call.pre)

\* C9: utilities of a batch are generated only the first time it is scored,
\* so the cache holds exactly one column per catalog item scored so far.
C9_OneColumnPerItem ==
    /\ ~last_call.rescored
    /\ Len(true_user_item_utils.cols) = Cardinality(scored)

\* C10: a call whose width is not the new-batch width and whose
\* (num_users, num_items) differs from the shape of the cached utilities
\* fails with an assertion error and leaves the cache unchanged.
C10_ShapeMismatchIsFatal ==
    (/\ last_call.kind # "none"
     /\ last_call.n # num_items_per_iter
     /\ ~last_call.pre.none
     /\ <<last_call.num_users, last_call.n>> # last_call.pre.shape)
    => (/\ last_call.exc = "AssertionError"
        /\ status = "AssertionError"
        /\ true_user_item_utils = last_call.pre)

\* C10 witness: a mismatching call was made against a cache holding utilities
C10_Witness ==
    /\ last_call.kind # "none"
    /\ last_call.n # num_items_per_iter
    /\ ~last_call.pre.none
    /\ Len(last_call.pre.cols) > 0
    /\ <<last_call.num_users, last_call.n>> # last_call.pre.shape
    /\ status = "AssertionError"

\* C11: update_profiles called while len(ordered_creator_ids) differs from the
\* number of item columns aborts at once and changes neither the creator
\* profiles nor ordered_creator_ids.
C11_MismatchAborts ==
    [][(/\ upd_calls' = upd_calls + 1
        /\ Len(ordered_creator_ids) # Len(items))
       => (/\ status' = "AssertionError"
           /\ actual_creator_profiles' = actual_creator_profiles
           /\ ordered_creator_ids' = ordered_creator_ids)]_vars

\* C11 witness: an update was refused for a catalog that had outgrown the ids
C11_Witness ==
    /\ upd_calls > 0
    /\ status = "AssertionError"
    /\ Len(ordered_creator_ids) < Len(items)

\* C12: when a creator profile row has sum zero at renormalisation time, the
\* update_profiles call fails with an error instead of dividing and going on
\* with the resulting profile values: no call that returned divided such a row.
C12_ZeroRowSumFailsFast ==
    last_update.called =>
        \A c \in Creators : RowSum(last_update.added[c]) # 0

C14_EndToEndScenario ==
    /\ status = "running"
    /\ gen_calls = upd_calls =>
          \A c \in Creators : \A a \in Attrs : actual_creator_profiles[c][a] # 0
    /\ (gen_calls = 8 /\ upd_calls = 8) =>
          /\ NumCreators = 10
          /\ Len(items) = 80
          /\ Len(ordered_creator_ids) = 80
          /\ \A c \in Creators :
                Cardinality({j \in 1 .. Len(ordered_creator_ids) :
                                ordered_creator_ids[j] = c}) = 8

\* C14 witness: the eighth step has ended, and users interacted on the way
C14_Witness ==
    /\ gen_calls = 8
    /\ upd_calls = 8
    /\ status = "running"
    /\ Len(last_update.item_ids) > 0
    /\ actual_creator_profiles[9] # last_update.prev[9]

C16_SameSeedSameRun == pop[1] = pop[2]

\* C17: recommend(k) samples without replacement per user: for every
\* k <= num_items the k items returned for a user are pairwise distinct.
C17_RecommendWithoutReplacement ==
    \A r \in Runs : \A u \in PopUsers :
        (pop[r].rec # <<>> /\ num_recommended <= PopNumItems) =>
            \A i, j \in 1 .. Len(pop[r].rec[u]) :
                i # j => pop[r].rec[u][i] # pop[r].rec[u][j]

\* C18: every model_score_fn call that returns yields a matrix of shape
\* (number of users passed, number of item columns passed), for new-batch and
\* full-catalog calls alike, also when the cache already holds earlier batches.
C18_ReturnShapeMatchesArguments ==
    (last_call.kind # "none" /\ last_call.exc = "none") =>
        last_call.ret.shape = <<last_call.num_users, last_call.n>>

\* C19: update_profiles leaves unchanged (up to rounding) the profile row of
\* every creator none of whose items appears in the interactions; a call with
\* no interactions changes no profile.
C19_UntouchedRowsUnchanged ==
    last_update.called =>
        \A c \in Creators :
            Occurrences(c) = {} =>
                \A a \in Attrs :
                    Abs(actual_creator_profiles[c][a] - last_update.prev[c][a]) <= Tol

====
